---------------------------- MODULE Spec2Model ----------------------------
(***************************************************************************)
(* A model of the beehive monitoring service: the DHT reading source, the  *)
(* interpretation engine and the JSON record store of                      *)
(* src/sensor/dht_sensor.py, the camera stream manager of                  *)
(* src/sensor/camera_stream.py, the motion source of                       *)
(* src/sensor/motion_sensor.py and the routes of src/app.py.               *)
(*                                                                         *)
(* Python values are modelled as follows.  An optional value is a sequence *)
(* of length at most one: None is <<>> and a present value x is <<x>>.     *)
(* Temperatures and humidities are integers in tenths (get_reading rounds  *)
(* to one decimal place), so 33.2 is 332.  A Python exception is an        *)
(* outcome "raised" of the step that raises it.                            *)
(***************************************************************************)
EXTENDS Integers, Sequences, FiniteSets, TLC

VARIABLES
    hw,        \* dht_sensor._HARDWARE_AVAILABLE
    device,    \* dht_sensor._DEVICE: [id, released]; id 0 is None
    file,      \* the content of RECORDS_PATH
    clock,     \* timestamps handed out by datetime.utcnow() so far
    threads,   \* the request threads of the process
    faults,    \* whether the file system may fail an open, a read or a write
    pc,        \* per thread: its position in get_reading_with_interpretation
    rec,       \* per thread: the local `record`
    records,   \* per thread: the local `records` of _save_record
    pre,       \* per thread: the file when its current call began
    fault,     \* per thread: an I/O failure happened during its current call
    api,       \* per thread: its current call is made by sensor_api, line 74
    op,        \* the last operation (or step) completed, with its result
    tIn,       \* interpret_reading: the temperature given
    hIn,       \* interpret_reading: the humidity given
    interp,    \* interpret_reading: the result returned
    G,         \* camera_stream._GLOBAL_CAMERA: an instance's number, 0 is None
    inst,      \* the CameraStream instances constructed so far, in order
    reqs,      \* the request threads that call get_camera
    req,       \* per request thread: its position in get_camera and its locals
    nreq,      \* /camera_feed requests begun so far
    camlib,    \* what importing sensor.camera_stream finds
    gens,      \* the mjpeg_generator of each response, in the order returned
    mhw,       \* motion_sensor._HARDWARE_AVAILABLE
    PIR,       \* motion_sensor._PIR: 0 is None, 1 the MotionSensor handle
    last_state,\* motion_sensor._last_state: None, or the last state notified
    LED,       \* motion_sensor._LED: None, or the indicator "on" or "off"
    event      \* the states of the last two events _update_state has printed,
               \* the latest last

dhtVars == <<hw, device, file, clock, threads, faults, pc, rec, records, pre, fault, api>>
interpVars == <<tIn, hIn, interp>>
camVars == <<G, inst, reqs, req, nreq, camlib, gens>>
motionVars == <<mhw, PIR, last_state, LED, event>>
vars == <<dhtVars, op, interpVars, camVars, motionVars>>

----------------------------------------------------------------------------
(* Bounds of the model *)

MaxThreads == 2      \* request threads in the concurrent specification
MaxCalls == 2        \* get_reading_with_interpretation calls that stamp a record
MaxSeed == 1         \* records in the log before the first call
MaxLimit == 2        \* largest limit given to read_saved_records
MaxRequests == 2     \* get_camera calls, and so CameraStream instances
MaxFrames == 1       \* frames one capture loop writes
TempFloor == 28      \* interpret_reading: lowest temperature given, in degrees
TempSpan == 12       \* interpret_reading: degrees covered above TempFloor
HumFloor == 37       \* interpret_reading: lowest humidity given, in percent
HumSpan == 39        \* interpret_reading: percent covered above HumFloor

(* Program constants *)

Scale == 10          \* round(..., 1): values are kept in tenths
TempIdealLo == 32
TempIdealHi == 36
TempCold == 30
TempHot == 38
HumIdealLo == 50
HumIdealHi == 65
HumDry == 40
HumDamp == 70

None == <<>>
Some(x) == <<x>>

Threads == 1..MaxThreads

----------------------------------------------------------------------------
(* dht_sensor.interpret_reading *)

TempStatusWide(temp) ==
    IF temp = None THEN "unknown"
    ELSE IF TempCold * Scale <= temp[1] /\ temp[1] <= TempHot * Scale THEN "ideal"
    ELSE IF temp[1] < TempCold * Scale THEN "too_cold"
    ELSE IF temp[1] > TempHot * Scale THEN "overheating"
    ELSE "warning"

TempStatus(temp) ==
    IF temp = None THEN "unknown"
    ELSE IF TempIdealLo * Scale <= temp[1] /\ temp[1] <= TempIdealHi * Scale THEN "ideal"
    ELSE IF temp[1] < TempCold * Scale THEN "too_cold"
    ELSE IF temp[1] > TempHot * Scale THEN "overheating"
    ELSE "warning"

HumStatus(hum) ==
    IF hum = None THEN "unknown"
    ELSE IF HumIdealLo * Scale <= hum[1] /\ hum[1] <= HumIdealHi * Scale THEN "ideal"
    ELSE IF hum[1] < HumDry * Scale THEN "too_dry"
    ELSE IF hum[1] > HumDamp * Scale THEN "too_damp"
    ELSE "warning"

interpret_reading(reading) ==
    [temperature_status |-> TempStatus(reading.temperature_c),
     humidity_status |-> HumStatus(reading.humidity)]

----------------------------------------------------------------------------
(* dht_sensor.get_reading *)

SensorTemps == {29 * Scale, 34 * Scale}
SensorHums == {60 * Scale, 75 * Scale}
MockTemps == {22 * Scale - 2, 22 * Scale + 2}
MockHums == {55 * Scale - 6, 55 * Scale + 6}

\* What adafruit_dht.DHT11(board.D4) does: returns a handle or raises.
InitOutcomes == {"ok", "raises"}
\* What reading _DEVICE.temperature and _DEVICE.humidity does.
ReadOutcomes == {"values", "missing", "RuntimeError", "Exception"}

NoDevice == [id |-> 0, released |-> FALSE]

Reading(t, h, e) == [temperature_c |-> t, humidity |-> h, error |-> e]

\* _init_device, called with hardware available: the handle afterwards, or
\* the exception of the DHT11 constructor.
_init_device(dev, initOut) ==
    IF dev.id # 0 THEN [outcome |-> "ok", device |-> dev]
    ELSE IF initOut = "raises" THEN [outcome |-> "raised", device |-> dev]
    ELSE [outcome |-> "ok", device |-> [id |-> dev.id + 1, released |-> FALSE]]

_mock_reading(t, h) == Reading(Some(t), Some(h), None)

\* The try block of get_reading on handle dev: the reading returned and the
\* handle afterwards.  stale: the read went to a handle exit() had released.
ReadDevice(dev, readOut, t, h) ==
    LET stale == dev.released IN
    CASE readOut = "values" ->
            [outcome |-> "returned", reading |-> Reading(Some(t), Some(h), None),
             device |-> dev, created |-> FALSE, stale |-> stale]
      [] readOut = "missing" ->
            [outcome |-> "returned",
             reading |-> Reading(None, None, Some("Invalid sensor reading")),
             device |-> dev, created |-> FALSE, stale |-> stale]
      [] readOut = "RuntimeError" ->
            [outcome |-> "returned",
             reading |-> Reading(None, None, Some("RuntimeError")),
             device |-> dev, created |-> FALSE, stale |-> stale]
      [] OTHER ->
            [outcome |-> "returned",
             reading |-> Reading(None, None, Some("Exception")),
             device |-> [dev EXCEPT !.released = TRUE],
             created |-> FALSE, stale |-> stale]

get_reading(dev, initOut, readOut, t, h) ==
    IF ~hw
    THEN [outcome |-> "returned", reading |-> _mock_reading(t, h), device |-> dev,
          created |-> FALSE, stale |-> FALSE]
    ELSE LET i == _init_device(dev, initOut) IN
         IF i.outcome = "raised"
         THEN [outcome |-> "raised", reading |-> Reading(None, None, None),
               device |-> i.device, created |-> FALSE, stale |-> FALSE]
         ELSE [ReadDevice(i.device, readOut, t, h) EXCEPT !.created = (dev.id = 0)]

\* What one get_reading call may meet: <<the constructor's outcome, the
\* read's outcome, the temperature, the humidity>>, each where it is used.
SensorInputs ==
    IF ~hw THEN {<<"ok", "values", t, h>> : t \in MockTemps, h \in MockHums}
    ELSE {<<"ok", "values", t, h>> : t \in SensorTemps, h \in SensorHums}
            \cup {<<"ok", r, 0, 0>> : r \in ReadOutcomes \ {"values"}}
            \cup (IF device.id = 0 THEN {<<i, "values", 0, 0>> : i \in InitOutcomes \ {"ok"}}
                   ELSE {})

----------------------------------------------------------------------------
(* The record log: RECORDS_PATH holds text, json.load and json.dump convert *)

JNull == [t |-> "null"]
JNumber(n) == [t |-> "number", v |-> n]
JString(s) == [t |-> "string", v |-> s]

JOptNumber(o) == IF o = None THEN JNull ELSE JNumber(o[1])
JOptString(o) == IF o = None THEN JNull ELSE JString(o[1])
PyOpt(j) == IF j.t = "null" THEN None ELSE Some(j.v)

EncodeRecord(r) ==
    [timestamp |-> JString(r.timestamp),
     temperature_c |-> JOptNumber(r.temperature_c),
     humidity |-> JOptNumber(r.humidity),
     error |-> JOptString(r.error),
     interpretation |->
        [temperature_status |-> JString(r.interpretation.temperature_status),
         humidity_status |-> JString(r.interpretation.humidity_status)]]

DecodeRecord(j) ==
    [timestamp |-> j.timestamp.v,
     temperature_c |-> PyOpt(j.temperature_c),
     humidity |-> PyOpt(j.humidity),
     error |-> PyOpt(j.error),
     interpretation |->
        [temperature_status |-> j.interpretation.temperature_status.v,
         humidity_status |-> j.interpretation.humidity_status.v]]

Absent == [kind |-> "absent", items |-> <<>>]
Empty == [kind |-> "empty", items |-> <<>>]
Garbage == [kind |-> "garbage", items |-> <<>>]
JObject == [kind |-> "object", items |-> <<>>]
JText == [kind |-> "string", items |-> <<"a", "b">>]
JArray(items) == [kind |-> "array", items |-> items]

\* json.dump(records, f): the text of a list of records.
JsonDump(list) == JArray([i \in 1..Len(list) |-> EncodeRecord(list[i])])

\* json.load(f): the Python value of the text, or a decode error.
JsonLoad(f) ==
    CASE f.kind = "array" ->
            [ok |-> TRUE, type |-> "list",
             value |-> [i \in 1..Len(f.items) |-> DecodeRecord(f.items[i])]]
      [] f.kind = "object" -> [ok |-> TRUE, type |-> "dict", value |-> <<>>]
      [] f.kind = "string" -> [ok |-> TRUE, type |-> "str", value |-> f.items]
      [] OTHER -> [ok |-> FALSE, type |-> "none", value |-> <<>>]

\* The records of a well-formed log, as Python values.
Log(f) == IF f.kind = "array" THEN JsonLoad(f).value ELSE <<>>

MkRecord(ts, reading) ==
    [timestamp |-> ts,
     temperature_c |-> reading.temperature_c,
     humidity |-> reading.humidity,
     error |-> reading.error,
     interpretation |-> interpret_reading(reading)]

SeedRecord(i) ==
    IF i % 2 = 1
    THEN MkRecord(i, Reading(Some(33 * Scale + 2), Some(56 * Scale + 1), None))
    ELSE MkRecord(i, Reading(None, None, Some("Invalid sensor reading")))

InitFiles ==
    {Absent, Empty, Garbage, JObject, JText}
        \cup {JsonDump([i \in 1..n |-> SeedRecord(i)]) : n \in 0..MaxSeed}

\* What the file system does to an open, a read or a write.
IoOutcomes == IF faults THEN {"ok", "open_fail", "rw_fail"} ELSE {"ok"}

----------------------------------------------------------------------------
(* dht_sensor.read_saved_records *)

Min(a, b) == IF a < b THEN a ELSE b
Max(a, b) == IF a > b THEN a ELSE b

\* Python's s[start:] on a sequence.
PySliceFrom(s, start) ==
    LET n == Len(s)
        from == IF start < 0 THEN Max(n + start, 0) ELSE Min(start, n)
    IN  SubSeq(s, from + 1, n)

read_saved_records(f, limit, io) ==
    IF f.kind = "absent" THEN <<>>
    ELSE IF io # "ok" THEN <<>>
    ELSE LET v == JsonLoad(f) IN
         IF ~v.ok THEN <<>>
         ELSE IF v.type = "dict" THEN <<>>
         ELSE PySliceFrom(v.value, 0 - limit)

----------------------------------------------------------------------------
(* dht_sensor._save_record, one step per file operation *)

\* The handler of line 144 (around json.load) and of line 149 (around the
\* whole body): both are `except Exception`.
InnerCatchesOSError(exc) == exc = "OSError"
InnerCatches(exc) == TRUE
OuterCatchesOSError(exc) == exc = "OSError"
OuterCatches(exc) == TRUE

NoList == [type |-> "list", value |-> <<>>]
Step(t) == [name |-> "step"]

\* Lines 139-145: the existing log read into `records`.
\* exc is "none" or the exception that leaves the inner try.
LoadExisting(f, io) ==
    IF f.kind = "absent" THEN [exc |-> "none", records |-> NoList]
    ELSE IF io = "open_fail" THEN [exc |-> "OSError", records |-> NoList]
    ELSE LET v == JsonLoad(f)
             raised == IF io = "rw_fail" THEN "OSError"
                       ELSE IF ~v.ok THEN "JSONDecodeError" ELSE "none"
         IN  IF raised = "none"
             THEN [exc |-> "none", records |-> [type |-> v.type, value |-> v.value]]
             ELSE IF InnerCatches(raised) THEN [exc |-> "none", records |-> NoList]
             ELSE [exc |-> raised, records |-> NoList]

\* An exception exc raised inside the try of _save_record: line 149 swallows
\* it and the call goes on to return the record, or it leaves the call.
SaveRaises(t, exc) ==
    IF OuterCatches(exc)
    THEN /\ pc' = [pc EXCEPT ![t] = "return"]
         /\ op' = Step(t)
    ELSE /\ pc' = [pc EXCEPT ![t] = "idle"]
         /\ op' = [name |-> "get_reading_with_interpretation", thread |-> t,
                   outcome |-> "raised", value |-> rec[t], stage |-> "save"]

Calls == clock - MaxSeed

\* get_reading_with_interpretation, lines 166-174: the reading, its
\* interpretation and the time stamp make the record.
BeginRecord(t) ==
    /\ t \in threads
    /\ pc[t] = (IF api[t] THEN "api_call" ELSE "idle")
    /\ Calls < MaxCalls
    /\ \E in \in SensorInputs :
          LET g == get_reading(device, in[1], in[2], in[3], in[4]) IN
          /\ device' = g.device
          /\ pre' = [pre EXCEPT ![t] = file]
          /\ fault' = [fault EXCEPT ![t] = FALSE]
          /\ IF g.outcome = "raised"
             THEN /\ op' = IF api[t]
                          THEN [name |-> "sensor_api", thread |-> t,
                                outcome |-> "raised", branch |-> "live",
                                io |-> "ok", base |-> g.reading, value |-> rec[t]]
                          ELSE [name |-> "get_reading_with_interpretation",
                                thread |-> t, outcome |-> "raised",
                                value |-> rec[t], stage |-> "read"]
                  /\ pc' = [pc EXCEPT ![t] = "idle"]
                  /\ api' = [api EXCEPT ![t] = FALSE]
                  /\ UNCHANGED <<clock, rec>>
             ELSE /\ clock' = clock + 1
                  /\ rec' = [rec EXCEPT ![t] = MkRecord(clock + 1, g.reading)]
                  /\ pc' = [pc EXCEPT ![t] = "save_read"]
                  /\ op' = Step(t)
                  /\ UNCHANGED api
    /\ UNCHANGED <<hw, file, threads, faults, records, interpVars, camVars, motionVars>>

SaveRead(t) ==
    /\ t \in threads
    /\ pc[t] = "save_read"
    /\ \E io \in IoOutcomes :
          LET l == LoadExisting(file, io) IN
          /\ fault' = [fault EXCEPT ![t] = fault[t] \/ (file.kind # "absent" /\ io # "ok")]
          /\ records' = [records EXCEPT ![t] = l.records]
          /\ IF l.exc = "none"
             THEN /\ pc' = [pc EXCEPT ![t] = "save_write"]
                  /\ op' = Step(t)
             ELSE SaveRaises(t, l.exc)
    /\ UNCHANGED <<hw, device, file, clock, threads, faults, rec, pre, api, interpVars, camVars, motionVars>>

\* Lines 146-147: records.append(record), then open(RECORDS_PATH, "w"),
\* which truncates the file.
SaveWrite(t) ==
    /\ t \in threads
    /\ pc[t] = "save_write"
    /\ \E io \in IoOutcomes \ {"rw_fail"} :
          IF records[t].type # "list"
          THEN /\ SaveRaises(t, "AttributeError")
               /\ UNCHANGED <<file, records, fault>>
          ELSE /\ records' = [records EXCEPT ![t].value = Append(@, rec[t])]
               /\ IF io = "open_fail"
                  THEN /\ SaveRaises(t, "OSError")
                       /\ fault' = [fault EXCEPT ![t] = TRUE]
                       /\ UNCHANGED file
                  ELSE /\ file' = Empty
                       /\ pc' = [pc EXCEPT ![t] = "save_dump"]
                       /\ op' = Step(t)
                       /\ UNCHANGED fault
    /\ UNCHANGED <<hw, device, clock, threads, faults, rec, pre, api, interpVars, camVars, motionVars>>

\* Line 148 and the close of the file: the text of `records` reaches the
\* file, or the write fails and leaves no text or a part of it.
SaveDump(t) ==
    /\ t \in threads
    /\ pc[t] = "save_dump"
    /\ \E io \in IoOutcomes \ {"open_fail"} :
          IF io = "ok"
          THEN /\ file' = JsonDump(records[t].value)
               /\ pc' = [pc EXCEPT ![t] = "return"]
               /\ op' = Step(t)
               /\ UNCHANGED fault
          ELSE /\ file' \in {Empty, Garbage}
               /\ fault' = [fault EXCEPT ![t] = TRUE]
               /\ SaveRaises(t, "OSError")
    /\ UNCHANGED <<hw, device, clock, threads, faults, rec, records, pre, api, interpVars, camVars, motionVars>>

\* Lines 175-176: _save_record has returned; the record is returned.
ReturnRecord(t) ==
    /\ t \in threads
    /\ pc[t] = "return"
    /\ pc' = [pc EXCEPT ![t] = IF api[t] THEN "api_motion" ELSE "idle"]
    /\ op' = [name |-> "get_reading_with_interpretation", thread |-> t,
              outcome |-> "returned", value |-> rec[t], stage |-> "done"]
    /\ UNCHANGED <<hw, device, file, clock, threads, faults, rec, records, pre, fault,
                   api, interpVars, camVars, motionVars>>

\* A plain get_reading() call.
GetReading(t) ==
    /\ t \in threads
    /\ pc[t] = "idle"
    /\ \E in \in SensorInputs :
          LET g == get_reading(device, in[1], in[2], in[3], in[4]) IN
          /\ device' = g.device
          /\ op' = [name |-> "get_reading", thread |-> t, outcome |-> g.outcome,
                    value |-> g.reading, created |-> g.created, stale |-> g.stale,
                    before |-> device]
    /\ UNCHANGED <<hw, file, clock, threads, faults, pc, rec, records, pre, fault,
                   api, interpVars, camVars, motionVars>>

\* A read that creates the log it does not find.
ReadSavedCreating(t) ==
    /\ t \in threads
    /\ pc[t] = "idle"
    /\ \E limit \in 0..MaxLimit, io \in IoOutcomes \ {"rw_fail"} :
          op' = [name |-> "read_saved_records", thread |-> t, outcome |-> "returned",
                 limit |-> limit, io |-> io,
                 value |-> read_saved_records(file, limit, io)]
    /\ file' = IF file.kind = "absent" THEN Empty ELSE file
    /\ UNCHANGED <<hw, device, clock, threads, faults, pc, rec, records, pre, fault,
                   api, interpVars, camVars, motionVars>>

\* A read_saved_records(limit) call.
ReadSaved(t) ==
    /\ t \in threads
    /\ pc[t] = "idle"
    /\ \E limit \in 0..MaxLimit, io \in IoOutcomes \ {"rw_fail"} :
          op' = [name |-> "read_saved_records", thread |-> t, outcome |-> "returned",
                 limit |-> limit, io |-> io,
                 value |-> read_saved_records(file, limit, io)]
    /\ UNCHANGED <<dhtVars, interpVars, camVars, motionVars>>

----------------------------------------------------------------------------
(* camera_stream: CameraStream, its capture loop, stop() and get_camera *)

\* The configurations requested: the defaults of get_camera, and each of
\* size, framerate and quality changed alone.
Default == [size |-> "640x480", framerate |-> 15, quality |-> 80]
Configs ==
    {Default,
     [Default EXCEPT !.size = "1280x720"],
     [Default EXCEPT !.framerate = 30],
     [Default EXCEPT !.quality = 50]}
Requests == 1..MaxThreads

\* What Picamera2(), configure() and start() do in CameraStream.__init__.
ConstructOutcomes == {"ok", "raises"}
\* What cv2.imencode does at line 67 and, when that raised, at line 69.
EncodeOutcomes == {"ok", "false", "raises_ok", "raises_false", "raises_raises"}

\* What `from sensor.camera_stream import ...` finds: everything; no cv2,
\* so that line 33 raises ImportError; or no picamera2, so that lines 12-31
\* leave Picamera2 = None.
CamLibs == {"ok", "no_cv2", "no_picamera2"}

\* The locals of one request.  checked: the instance whose configuration
\* line 103 compared, with its running flag (live) and its framerate (fps)
\* at that time; target: the instance stopped; new: the instance made.
IdleReq ==
    [pc |-> "idle", size |-> "640x480", framerate |-> 15, quality |-> 80,
     checked |-> 0, live |-> FALSE, fps |-> 0, target |-> 0, new |-> 0]

\* CameraStream.__init__, lines 39-59: the instance once its capture thread
\* has been started.  succ: the instance a reconfiguration started in its
\* place, 0 while there is none.
CameraStream(size, framerate, quality) ==
    [size |-> size, framerate |-> framerate, quality |-> quality,
     dev |-> "started", frame |-> 0, running |-> TRUE, loop |-> "check",
     succ |-> 0]

Insts == 1..Len(inst)

\* The capture thread of instance i is alive.
Alive(i) == inst[i].loop # "exited"

CamStep(r) == [name |-> "step"]

\* _capture_loop, line 62: while self.running.
LoopCheck(i) ==
    /\ i \in Insts
    /\ inst[i].loop = "check"
    /\ inst' = [inst EXCEPT ![i].loop = IF inst[i].running THEN "capture" ELSE "exited"]
    /\ op' = CamStep(0)
    /\ UNCHANGED <<dhtVars, interpVars, motionVars, G, reqs, req, nreq, camlib, gens>>

\* Line 63: capture_array() returns an image; on a device that stop() has
\* released it may raise instead, which ends the thread.
LoopCapture(i) ==
    /\ i \in Insts
    /\ inst[i].loop = "capture"
    /\ \E out \in (IF inst[i].dev = "started" THEN {"image"} ELSE {"image", "raises"}) :
          inst' = [inst EXCEPT ![i].loop = IF out = "image" THEN "encode" ELSE "exited"]
    /\ op' = CamStep(0)
    /\ UNCHANGED <<dhtVars, interpVars, motionVars, G, reqs, req, nreq, camlib, gens>>

\* Lines 65-69 and the test of line 71: the position after the encode.
AfterEncode(out) ==
    CASE out \in {"ok", "raises_ok"} -> "write"
      [] out \in {"false", "raises_false"} -> "sleep"
      [] OTHER -> "exited"

\* The encodes that produce a frame are counted up to MaxFrames; past that
\* number every further encode of the instance is one of the failing ones.
EncodeChoices(i) ==
    IF inst[i].frame < MaxFrames THEN EncodeOutcomes
    ELSE EncodeOutcomes \ {"ok", "raises_ok"}

LoopEncode(i) ==
    /\ i \in Insts
    /\ inst[i].loop = "encode"
    /\ \E out \in EncodeChoices(i) : inst' = [inst EXCEPT ![i].loop = AfterEncode(out)]
    /\ op' = CamStep(0)
    /\ UNCHANGED <<dhtVars, interpVars, motionVars, G, reqs, req, nreq, camlib, gens>>

\* Lines 72-73: the new frame replaces the retained one, under the lock.
LoopWrite(i) ==
    /\ i \in Insts
    /\ inst[i].loop = "write"
    /\ inst' = [inst EXCEPT ![i].frame = @ + 1, ![i].loop = "check"]
    /\ op' = CamStep(0)
    /\ UNCHANGED <<dhtVars, interpVars, motionVars, G, reqs, req, nreq, camlib, gens>>

\* A loop that forgets the retained frame when an encode fails.
LoopSleepClearing(i) ==
    /\ i \in Insts
    /\ inst[i].loop = "sleep"
    /\ inst' = [inst EXCEPT ![i].loop = "check", ![i].frame = 0]
    /\ op' = CamStep(0)
    /\ UNCHANGED <<dhtVars, interpVars, motionVars, G, reqs, req, nreq, camlib, gens>>

\* Line 75: time.sleep(0.01) after an encode that failed.
LoopSleep(i) ==
    /\ i \in Insts
    /\ inst[i].loop = "sleep"
    /\ inst' = [inst EXCEPT ![i].loop = "check"]
    /\ op' = CamStep(0)
    /\ UNCHANGED <<dhtVars, interpVars, motionVars, G, reqs, req, nreq, camlib, gens>>

\* get_camera, line 99: the test of _GLOBAL_CAMERA against None.
GetCamera(r) ==
    /\ r \in reqs
    /\ req[r].pc = "idle"
    /\ camlib # "no_cv2"
    /\ nreq < MaxRequests
    /\ nreq' = nreq + 1
    /\ \E c \in Configs :
          req' = [req EXCEPT ![r] = [IdleReq EXCEPT !.size = c.size,
                                                    !.framerate = c.framerate,
                                                    !.quality = c.quality,
                                                    !.pc = IF G = 0 THEN "first_new"
                                                           ELSE "compare"]]
    /\ op' = CamStep(r)
    /\ UNCHANGED <<dhtVars, interpVars, motionVars, G, inst, reqs, camlib, gens>>

\* Lines 100 and 105: CameraStream(...) is constructed; when it raises at
\* line 100 the exception leaves get_camera, at line 105 line 106 swallows it.
Construct(r) ==
    /\ r \in reqs
    /\ req[r].pc \in {"first_new", "re_new"}
    /\ \E out \in (IF camlib = "no_picamera2" THEN {"raises"} ELSE ConstructOutcomes) :
          IF out = "ok"
          THEN /\ inst' =
                    Append(IF req[r].target = 0 THEN inst
                           ELSE [inst EXCEPT ![req[r].target].succ = Len(inst) + 1],
                           CameraStream(req[r].size, req[r].framerate, req[r].quality))
               /\ req' = [req EXCEPT ![r].new = Len(inst) + 1, ![r].pc = "assign"]
               /\ op' = CamStep(r)
          ELSE /\ UNCHANGED inst
               /\ IF req[r].pc = "first_new"
                  THEN /\ req' = [req EXCEPT ![r] = IdleReq]
                       /\ op' = [name |-> "get_camera", thread |-> r,
                                 outcome |-> "raised", value |-> 0,
                                 req |-> req[r], status |-> 500]
                  ELSE /\ req' = [req EXCEPT ![r].pc = "return"]
                       /\ op' = CamStep(r)
    /\ UNCHANGED <<dhtVars, interpVars, motionVars, G, reqs, nreq, camlib, gens>>

\* Lines 100 and 105: the new instance is bound to _GLOBAL_CAMERA.
Assign(r) ==
    /\ r \in reqs
    /\ req[r].pc = "assign"
    /\ G' = req[r].new
    /\ req' = [req EXCEPT ![r].pc = "return"]
    /\ op' = CamStep(r)
    /\ UNCHANGED <<dhtVars, interpVars, motionVars, inst, reqs, nreq, camlib, gens>>

\* The condition of line 103 on instance c.
ConfigDiffers(c, size, quality) == c.size # size \/ c.quality # quality

\* Line 103: the running instance's size and quality against the request's.
Compare(r) ==
    /\ r \in reqs
    /\ req[r].pc = "compare"
    /\ req' = [req EXCEPT ![r].checked = G,
                          ![r].live = inst[G].running,
                          ![r].fps = inst[G].framerate,
                          ![r].pc = IF ConfigDiffers(inst[G], req[r].size, req[r].quality)
                                    THEN "stop" ELSE "return"]
    /\ op' = CamStep(r)
    /\ UNCHANGED <<dhtVars, interpVars, motionVars, G, inst, reqs, nreq, camlib, gens>>

\* Line 104 and stop(), line 82: _GLOBAL_CAMERA is read again and its
\* running flag cleared.
StopFlag(r) ==
    /\ r \in reqs
    /\ req[r].pc = "stop"
    /\ inst' = [inst EXCEPT ![G].running = FALSE]
    /\ req' = [req EXCEPT ![r].target = G, ![r].pc = "join"]
    /\ op' = CamStep(r)
    /\ UNCHANGED <<dhtVars, interpVars, motionVars, G, reqs, nreq, camlib, gens>>

\* CameraStream.stop() called on instance i by itself (process shutdown, or
\* a second call), line 82: the flag is cleared whatever it was.  live keeps
\* the flag the call found.
StopCall(r, i) ==
    /\ r \in reqs
    /\ req[r].pc = "idle"
    /\ i \in Insts
    /\ inst' = [inst EXCEPT ![i].running = FALSE]
    /\ req' = [req EXCEPT ![r].target = i, ![r].live = inst[i].running,
                          ![r].pc = "call_join"]
    /\ op' = CamStep(r)
    /\ UNCHANGED <<dhtVars, interpVars, motionVars, G, reqs, nreq, camlib, gens>>

\* stop(), line 84: join(timeout=1.0) returns when the capture thread has
\* exited, or once the second is over while the thread is still alive.
StopJoin(r) ==
    /\ r \in reqs
    /\ req[r].pc \in {"join", "call_join"}
    /\ req' = [req EXCEPT ![r].pc = IF req[r].pc = "join" THEN "release" ELSE "call_release"]
    /\ op' = CamStep(r)
    /\ UNCHANGED <<dhtVars, interpVars, motionVars, G, inst, reqs, nreq, camlib, gens>>

\* What picam2.stop() does at line 88.
ReleaseOutcomes == {"ok", "raises"}

\* A stop() whose release is outside any handler.
stop_unguarded(out) == IF out = "ok" THEN "returned" ELSE "raised"

\* stop(), lines 87-90: an exception of picam2.stop() is swallowed.
stop(out) == "returned"

\* stop(), line 88: picam2.stop() releases the device, or raises and leaves
\* it as it was.  Back in get_camera the construction of line 105 follows;
\* a call of stop() by itself is over.
StopRelease(r) ==
    /\ r \in reqs
    /\ req[r].pc \in {"release", "call_release"}
    /\ \E out \in ReleaseOutcomes :
          /\ inst' = [inst EXCEPT ![req[r].target].dev = IF out = "ok" THEN "stopped" ELSE @]
          /\ IF req[r].pc = "release"
             THEN /\ stop(out) = "returned"
                  /\ req' = [req EXCEPT ![r].pc = "re_new"]
                  /\ op' = CamStep(r)
             ELSE /\ req' = [req EXCEPT ![r] = IdleReq]
                  /\ op' = [name |-> "stop", thread |-> r, outcome |-> stop(out),
                            value |-> req[r].target, again |-> ~req[r].live,
                            release |-> out]
    /\ UNCHANGED <<dhtVars, interpVars, motionVars, G, reqs, nreq, camlib, gens>>

\* mjpeg_generator(cam), lines 111-118, before its first step.  frame: the
\* value its last get_frame() returned, 0 is None; consumer: the client of
\* the response; got: the payload of the element the client received last.
mjpeg_generator(cam) ==
    [cam |-> cam, pc |-> "get", frame |-> 0, consumer |-> "attached", got |-> 0]

\* Line 108: return _GLOBAL_CAMERA; app.py line 45: the response streams
\* mjpeg_generator(cam).
ReturnCamera(r) ==
    /\ r \in reqs
    /\ req[r].pc = "return"
    /\ req' = [req EXCEPT ![r] = IdleReq]
    /\ op' = [name |-> "get_camera", thread |-> r, outcome |-> "returned", value |-> G,
              req |-> req[r], status |-> 200]
    /\ gens' = Append(gens, mjpeg_generator(G))
    /\ UNCHANGED <<dhtVars, interpVars, motionVars, G, inst, reqs, nreq, camlib>>

\* app.py, lines 30-33: the import raises ImportError; the response is the
\* text "Camera not available" with status 503.
CameraFeedUnavailable(r) ==
    /\ r \in reqs
    /\ req[r].pc = "idle"
    /\ camlib = "no_cv2"
    /\ nreq < MaxRequests
    /\ nreq' = nreq + 1
    /\ op' = [name |-> "camera_feed", thread |-> r, outcome |-> "returned",
              value |-> "Camera not available", req |-> req[r], status |-> 503]
    /\ UNCHANGED <<dhtVars, interpVars, motionVars, G, inst, reqs, req, camlib, gens>>

CamInit(n, libs) ==
    /\ G = 0
    /\ inst = <<>>
    /\ reqs = 1..n
    /\ req = [r \in Requests |-> IdleReq]
    /\ nreq = 0
    /\ camlib \in libs
    /\ gens = <<>>

CamNext ==
    \/ \E i \in 1..MaxRequests :
          \/ LoopCheck(i)
          \/ LoopCapture(i)
          \/ LoopEncode(i)
          \/ LoopWrite(i)
          \/ LoopSleep(i)
    \/ \E r \in Requests :
          \/ CameraFeedUnavailable(r)
          \/ GetCamera(r)
          \/ Construct(r)
          \/ Assign(r)
          \/ Compare(r)
          \/ StopFlag(r)
          \/ StopJoin(r)
          \/ StopRelease(r)
          \/ ReturnCamera(r)

----------------------------------------------------------------------------
(* camera_stream.mjpeg_generator and the server that streams its elements *)

Gens == 1..Len(gens)

\* A read that returns a frame the loop has not written.
get_frame_ahead(i) == inst[i].frame + 1

\* CameraStream.get_frame, lines 77-79: the retained frame, read under the
\* lock; 0 is None.
get_frame(i) == inst[i].frame

\* A generator that asks the current global instance for its frame.
GenGetCurrent(k) ==
    /\ k \in Gens
    /\ gens[k].pc = "get"
    /\ LET f == get_frame(G) IN
       gens' = [gens EXCEPT ![k].frame = f,
                            ![k].pc = IF f # 0 THEN "yield" ELSE "sleep"]
    /\ op' = CamStep(0)
    /\ UNCHANGED <<dhtVars, interpVars, motionVars, G, inst, reqs, req, nreq, camlib>>

\* Lines 114-118: frame = cam.get_frame(); with a frame the generator
\* yields an element that carries it, without one it goes to sleep.
GenGet(k) ==
    /\ k \in Gens
    /\ gens[k].pc = "get"
    /\ LET f == get_frame(gens[k].cam) IN
       gens' = [gens EXCEPT ![k].frame = f,
                            ![k].pc = IF f # 0 THEN "yield" ELSE "sleep"]
    /\ op' = CamStep(0)
    /\ UNCHANGED <<dhtVars, interpVars, motionVars, G, inst, reqs, req, nreq, camlib>>

\* Line 118: time.sleep(0.01), then the loop again.
GenSleep(k) ==
    /\ k \in Gens
    /\ gens[k].pc = "sleep"
    /\ gens' = [gens EXCEPT ![k].pc = "get"]
    /\ op' = CamStep(0)
    /\ UNCHANGED <<dhtVars, interpVars, motionVars, G, inst, reqs, req, nreq, camlib>>

\* The server writes the element yielded at line 116 to the client and asks
\* the generator for the next one.
Deliver(k) ==
    /\ k \in Gens
    /\ gens[k].pc = "yield"
    /\ gens[k].consumer = "attached"
    /\ gens' = [gens EXCEPT ![k].got = gens[k].frame, ![k].pc = "get"]
    /\ op' = CamStep(0)
    /\ UNCHANGED <<dhtVars, interpVars, motionVars, G, inst, reqs, req, nreq, camlib>>

\* The client of the response goes away.
Detach(k) ==
    /\ k \in Gens
    /\ gens[k].consumer = "attached"
    /\ gens' = [gens EXCEPT ![k].consumer = "detached"]
    /\ op' = CamStep(0)
    /\ UNCHANGED <<dhtVars, interpVars, motionVars, G, inst, reqs, req, nreq, camlib>>

\* The server's write of a yielded element fails because the client went
\* away; the server closes the generator, which ends it at line 116.
Close(k) ==
    /\ k \in Gens
    /\ gens[k].pc = "yield"
    /\ gens[k].consumer = "detached"
    /\ gens' = [gens EXCEPT ![k].pc = "closed"]
    /\ op' = CamStep(0)
    /\ UNCHANGED <<dhtVars, interpVars, motionVars, G, inst, reqs, req, nreq, camlib>>

\* The steps a generator and its server take by themselves.
GenRun(k) == GenGet(k) \/ GenSleep(k) \/ Close(k)

GenNext == \E k \in 1..MaxRequests : GenRun(k) \/ Deliver(k) \/ Detach(k)

\* The steps of the capture thread of instance i.
LoopRun(i) == LoopCheck(i) \/ LoopCapture(i) \/ LoopEncode(i) \/ LoopWrite(i) \/ LoopSleep(i)

\* The steps of a request once it has begun.
RequestRun(r) ==
    \/ Construct(r) \/ Assign(r) \/ Compare(r)
    \/ StopFlag(r) \/ StopJoin(r) \/ StopRelease(r) \/ ReturnCamera(r)

\* A call of stop() by itself.
StopNext == \E r \in Requests : \E i \in 1..MaxRequests : StopCall(r, i)

----------------------------------------------------------------------------
(* motion_sensor: get_state, _update_state and the gpiozero callbacks *)

\* What MotionSensor(17) does at line 44 and LED(2) at line 81.
HandleOutcomes == {"ok", "raises"}
\* What reading _PIR.motion_detected gives at line 49.
QueryOutcomes == {"true", "false", "raises"}
\* What _LED.on() and _LED.off() do at lines 89 and 91.
ToggleOutcomes == {"ok", "raises"}

MotionResult(motion, error) == [motion |-> motion, error |-> error]

\* The module state of motion_sensor as one record.
MotionState == [PIR |-> PIR, last_state |-> last_state, LED |-> LED, event |-> event]

\* A notifier that drops what it is given.
_update_state_dropped(m, new_state, ledOut, toggle) == m

\* The latest two of the printed events.
LastTwo(s) == IF Len(s) > 2 THEN Tail(s) ELSE s

\* A notifier without the comparison of line 73.
_update_state_unconditional(m, new_state, ledOut, toggle) ==
    [m EXCEPT !.last_state = Some(new_state),
              !.event = LastTwo(Append(m.event, new_state))]

\* _update_state, lines 67-99: nothing happens when the state is the last
\* one notified; otherwise it becomes the last state, the indicator is
\* created if need be (best effort) and switched (best effort), and the
\* event is printed.
_update_state(m, new_state, ledOut, toggle) ==
    IF Some(new_state) = m.last_state THEN m
    ELSE LET made == IF m.LED = None /\ mhw
                     THEN (IF ledOut = "ok" THEN Some("off") ELSE None)
                     ELSE m.LED
             lit == IF made # None /\ toggle = "ok"
                    THEN Some(IF new_state THEN "on" ELSE "off")
                    ELSE made
         IN  [m EXCEPT !.last_state = Some(new_state), !.LED = lit,
                       !.event = LastTwo(Append(m.event, new_state))]

\* _mock_state, lines 27-30: a bool taken from the wall clock.
_mock_state(b) == MotionResult(Some(b), None)

\* A handle made anew by every call.
InitHandleEachCall(pir, out) ==
    IF out = "ok" THEN [PIR |-> 1, created |-> TRUE, failed |-> FALSE]
    ELSE [PIR |-> 0, created |-> FALSE, failed |-> TRUE]

\* get_state, lines 41-46: the handle is made when there is none.
InitHandle(pir, out) ==
    IF pir # 0 THEN [PIR |-> pir, created |-> FALSE, failed |-> FALSE]
    ELSE IF out = "ok" THEN [PIR |-> 1, created |-> TRUE, failed |-> FALSE]
    ELSE [PIR |-> 0, created |-> FALSE, failed |-> TRUE]

\* get_state, lines 33-54: its result, the module state it leaves and
\* whether it made the handle.  mock: the value _mock_state takes from the
\* clock; handle, query, ledOut, toggle: what the hardware does.
get_state(m, mock, handle, query, ledOut, toggle) ==
    IF ~mhw THEN [result |-> _mock_state(mock), state |-> m, created |-> FALSE]
    ELSE LET h == InitHandle(m.PIR, handle)
             held == [m EXCEPT !.PIR = h.PIR]
         IN  IF h.failed
             THEN [result |-> MotionResult(None, Some("error")), state |-> held,
                   created |-> FALSE]
             ELSE IF query = "raises"
             THEN [result |-> MotionResult(None, Some("error")), state |-> held,
                   created |-> h.created]
             ELSE [result |-> MotionResult(Some(query = "true"), None),
                   state |-> _update_state(held, query = "true", ledOut, toggle),
                   created |-> h.created]

\* The module state after a call.
SetMotion(m) ==
    /\ PIR' = m.PIR
    /\ last_state' = m.last_state
    /\ LED' = m.LED
    /\ event' = m.event

\* What one get_state call may meet: <<the clock's bool, the handle's
\* constructor, the query, the indicator's constructor, its switch>>.
MotionInputs ==
    IF ~mhw THEN {<<b, "ok", "true", "ok", "ok">> : b \in BOOLEAN}
    ELSE {<<FALSE, h, q, l, g>> : h \in HandleOutcomes, q \in QueryOutcomes,
                                  l \in HandleOutcomes, g \in ToggleOutcomes}

GetState ==
    /\ \E in \in MotionInputs :
          LET r == get_state(MotionState, in[1], in[2], in[3], in[4], in[5])
          IN  /\ SetMotion(r.state)
              /\ op' = [name |-> "get_state", outcome |-> "returned",
                        value |-> r.result, created |-> r.created,
                        handle |-> in[2], query |-> in[3],
                        led |-> in[4], toggle |-> in[5],
                        before |-> MotionState]
    /\ UNCHANGED <<dhtVars, interpVars, camVars, mhw>>

\* motion_detected and motion_stopped, lines 57-64: the callbacks gpiozero
\* runs, for a handle they are attached to, when motion starts and stops.
MotionCallback(name, new_state) ==
    /\ mhw
    /\ PIR # 0
    /\ \E ledOut \in HandleOutcomes, toggle \in ToggleOutcomes :
          /\ SetMotion(_update_state(MotionState, new_state, ledOut, toggle))
          /\ op' = [name |-> name, led |-> ledOut, toggle |-> toggle,
                    before |-> MotionState]
    /\ UNCHANGED <<dhtVars, interpVars, camVars, mhw>>

motion_detected == MotionCallback("motion_detected", TRUE)
motion_stopped == MotionCallback("motion_stopped", FALSE)

MotionInit(h) ==
    /\ mhw \in h
    /\ PIR = 0
    /\ last_state = None
    /\ LED = None
    /\ event = None

MotionNext == GetState \/ motion_detected \/ motion_stopped

----------------------------------------------------------------------------
(* app.py: the route /api/sensor *)

\* The dict `reading` of sensor_api: the keys it holds and their values (a
\* key it does not hold has the value None here).
ApiReading(keys, t, h, ts, i) ==
    [keys |-> keys, temperature_c |-> t, humidity |-> h, timestamp |-> ts,
     interpretation |-> i]

AllKeys == {"temperature_c", "humidity", "timestamp", "interpretation"}

\* A fallback that never looks at the log.
FallbackReadingBlank(f, io) ==
    [outcome |-> "returned",
     reading |-> ApiReading({"temperature_c", "humidity"}, None, None, None, None)]

\* Lines 62-71: the last saved record stands in for the live reading.  A
\* log that is a JSON string gives read_saved_records a str, whose last
\* character has no .get: line 65 raises.
FallbackReading(f, io) ==
    LET saved == read_saved_records(f, 1, io) IN
    IF saved = <<>>
    THEN [outcome |-> "returned",
          reading |-> ApiReading({"temperature_c", "humidity"}, None, None, None, None)]
    ELSE IF f.kind = "string"
    THEN [outcome |-> "raised",
          reading |-> ApiReading({}, None, None, None, None)]
    ELSE LET last == saved[Len(saved)] IN
         [outcome |-> "returned",
          reading |-> ApiReading(AllKeys, last.temperature_c, last.humidity,
                                 Some(last.timestamp), Some(last.interpretation))]

\* Lines 75-78: the record of get_reading_with_interpretation is copied.
LiveReading(r) ==
    ApiReading(AllKeys, r.temperature_c, r.humidity, Some(r.timestamp),
               Some(r.interpretation))

\* Lines 88-93.
MotionStatus(m) ==
    IF m = Some(TRUE) THEN "detected"
    ELSE IF m = Some(FALSE) THEN "none"
    ELSE "unknown"

\* Lines 82-97: the motion is merged in, the error keys are removed.
Respond(reading, result) ==
    [keys |-> (reading.keys \cup {"motion", "motion_status"}) \ {"error", "motion_error"},
     temperature_c |-> reading.temperature_c,
     humidity |-> reading.humidity,
     timestamp |-> reading.timestamp,
     interpretation |-> reading.interpretation,
     motion |-> result.motion,
     motion_status |-> MotionStatus(result.motion)]

ApiOp(t, outcome, branch, io, base, value) ==
    [name |-> "sensor_api", thread |-> t, outcome |-> outcome, branch |-> branch,
     io |-> io, base |-> base, value |-> value]

NoResponse == Respond(ApiReading({}, None, None, None, None), MotionResult(None, None))

\* sensor_api, lines 58-71 and 79-102: the live read; when it lacks a value
\* the request is answered from the log, otherwise it goes on to line 74.
SensorApi(t) ==
    /\ t \in threads
    /\ pc[t] = "idle"
    /\ \E in \in SensorInputs :
          LET g == get_reading(device, in[1], in[2], in[3], in[4]) IN
          /\ device' = g.device
          /\ IF g.outcome = "raised"
             THEN /\ op' = ApiOp(t, "raised", "none", "ok", g.reading, NoResponse)
                  /\ UNCHANGED <<pc, api, PIR, last_state, LED, event>>
             ELSE IF g.reading.temperature_c = None \/ g.reading.humidity = None
             THEN \E io \in IoOutcomes \ {"rw_fail"} :
                  LET fb == FallbackReading(file, io) IN
                  IF fb.outcome = "raised"
                  THEN /\ op' = ApiOp(t, "raised", "fallback", io, g.reading, NoResponse)
                       /\ UNCHANGED <<pc, api, PIR, last_state, LED, event>>
                  ELSE \E min \in MotionInputs :
                       LET m == get_state(MotionState, min[1], min[2], min[3],
                                          min[4], min[5])
                       IN  /\ SetMotion(m.state)
                           /\ op' = ApiOp(t, "returned", "fallback", io, g.reading,
                                          Respond(fb.reading, m.result))
                           /\ UNCHANGED <<pc, api>>
             ELSE /\ Calls < MaxCalls
                  /\ pc' = [pc EXCEPT ![t] = "api_call"]
                  /\ api' = [api EXCEPT ![t] = TRUE]
                  /\ op' = Step(t)
                  /\ UNCHANGED <<PIR, last_state, LED, event>>
    /\ UNCHANGED <<hw, file, clock, threads, faults, rec, records, pre, fault,
                   interpVars, camVars, mhw>>

\* Lines 75-102: get_reading_with_interpretation has returned; the motion
\* is queried and the response is sent.
SensorApiRespond(t) ==
    /\ t \in threads
    /\ pc[t] = "api_motion"
    /\ \E min \in MotionInputs :
          LET m == get_state(MotionState, min[1], min[2], min[3], min[4], min[5]) IN
          /\ SetMotion(m.state)
          /\ op' = ApiOp(t, "returned", "live", "ok", rec[t],
                         Respond(LiveReading(rec[t]), m.result))
    /\ pc' = [pc EXCEPT ![t] = "idle"]
    /\ api' = [api EXCEPT ![t] = FALSE]
    /\ UNCHANGED <<hw, device, file, clock, threads, faults, rec, records, pre, fault,
                   interpVars, camVars, mhw>>

ApiNext == \E t \in Threads : SensorApi(t) \/ SensorApiRespond(t)

----------------------------------------------------------------------------
(* Specifications *)

NoRecord == MkRecord(0, Reading(None, None, None))

InterpIdle == tIn = None /\ hIn = None /\ interp = interpret_reading(Reading(None, None, None))

DhtInit(n, f) ==
    /\ hw \in BOOLEAN
    /\ device = NoDevice
    /\ file \in InitFiles
    /\ clock = MaxSeed
    /\ threads = 1..n
    /\ faults = f
    /\ pc = [t \in Threads |-> "idle"]
    /\ rec = [t \in Threads |-> NoRecord]
    /\ records = [t \in Threads |-> NoList]
    /\ pre = [t \in Threads |-> Absent]
    /\ fault = [t \in Threads |-> FALSE]
    /\ api = [t \in Threads |-> FALSE]
    /\ op = [name |-> "init"]

DhtNext ==
    \E t \in Threads :
        \/ BeginRecord(t)
        \/ SaveRead(t)
        \/ SaveWrite(t)
        \/ SaveDump(t)
        \/ ReturnRecord(t)
        \/ GetReading(t)
        \/ ReadSaved(t)

\* No motion hardware, and nothing calls the motion source.
MotionIdle == MotionInit({FALSE})

\* No request is being served.
Quiet == \A t \in threads : pc[t] = "idle"

\* interpret_reading applied to the reading given.
Interpret ==
    /\ Quiet
    /\ interp' = interpret_reading(Reading(tIn, hIn, None))
    /\ op' = [name |-> "interpret_reading"]
    /\ UNCHANGED <<dhtVars, tIn, hIn, camVars, motionVars>>

\* Sequential use: one request at a time, on a file system that may fail,
\* with no motion hardware (the motion source is then _mock_state).
Init == DhtInit(1, TRUE) /\ InterpIdle /\ CamInit(1, {"ok"}) /\ MotionIdle
Next == DhtNext
Spec == Init /\ [][Next]_vars

\* The same, with the requests of /api/sensor and the calls of the motion
\* source and of interpret_reading between the calls of the record store.
NextApi ==
    \/ DhtNext
    \/ ApiNext
    \/ Quiet /\ GetState
    \/ Interpret
SpecApi == Init /\ [][NextApi]_vars

\* Concurrent requests of one process, on a file system that does not fail.
InitConc == DhtInit(MaxThreads, FALSE) /\ InterpIdle /\ CamInit(1, {"ok"}) /\ MotionIdle
NextConc ==
    \E t \in Threads :
        \/ BeginRecord(t)
        \/ SaveRead(t)
        \/ SaveWrite(t)
        \/ SaveDump(t)
        \/ ReturnRecord(t)
SpecConc == InitConc /\ [][NextConc]_vars

\* The camera stream manager: get_camera called by one request at a time,
\* and by concurrent requests.
DhtIdle == DhtInit(1, FALSE) /\ hw = FALSE /\ file = Absent
InitCamSeq == DhtIdle /\ InterpIdle /\ CamInit(1, CamLibs) /\ MotionIdle
SpecCamSeq == InitCamSeq /\ [][CamNext]_vars
\* The streams of /camera_feed, requested one at a time.  Every thread that
\* can take a step is scheduled in the end, and a client that stays attached
\* goes on reading; requests and departures of clients are up to the clients.
NextStream == CamNext \/ GenNext
StreamFairness ==
    /\ \A i \in 1..MaxRequests : WF_vars(LoopRun(i))
    /\ \A r \in Requests : WF_vars(RequestRun(r))
    /\ \A k \in 1..MaxRequests : WF_vars(GenRun(k)) /\ WF_vars(Deliver(k))
SpecStream == InitCamSeq /\ [][NextStream]_vars /\ StreamFairness

\* Requests one at a time, calls of stop() between them, and every thread
\* scheduled fairly.
NextStop == CamNext \/ StopNext
StopFairness ==
    /\ \A i \in 1..MaxRequests : WF_vars(LoopRun(i))
    /\ \A r \in Requests : WF_vars(RequestRun(r))
SpecStop == InitCamSeq /\ [][NextStop]_vars /\ StopFairness

InitCam == DhtIdle /\ InterpIdle /\ CamInit(MaxThreads, CamLibs) /\ MotionIdle
SpecCam == InitCam /\ [][CamNext]_vars

\* interpret_reading applied to every reading of the bounded domain.
TempValues == {None} \cup {Some(v) : v \in (TempFloor * Scale)..((TempFloor + TempSpan) * Scale)}
HumValues == {None} \cup {Some(v) : v \in (HumFloor * Scale)..((HumFloor + HumSpan) * Scale)}

InitInterp ==
    /\ DhtInit(1, FALSE)
    /\ hw = FALSE
    /\ file = Absent
    /\ tIn \in TempValues
    /\ hIn \in HumValues
    /\ interp = interpret_reading(Reading(None, None, None))
    /\ CamInit(1, {"ok"})
    /\ MotionIdle
NextInterp == Interpret
SpecInterp == InitInterp /\ [][NextInterp]_vars

\* The motion source: get_state queries and the gpiozero callbacks, with
\* and without the hardware.
InitMotion == DhtIdle /\ InterpIdle /\ CamInit(1, {"ok"}) /\ MotionInit(BOOLEAN)
SpecMotion == InitMotion /\ [][MotionNext]_vars

----------------------------------------------------------------------------
(* Properties of the record store and the reading source *)

LastN(s, n) == SubSeq(s, Len(s) - n + 1, Len(s))
Finished(name) == op.name = name
Recorded == Finished("get_reading_with_interpretation")

\* C1: for every limit >= 0 and every stored log, read_saved_records(limit)
\* returns at most `limit` records, and they are the last min(limit, length)
\* records of the log in append order.
C1_LimitRespected ==
    (Finished("read_saved_records") /\ op.io = "ok" /\ file.kind = "array")
        => /\ Len(op.value) <= op.limit
           /\ op.value = LastN(Log(file), Min(op.limit, Len(Log(file))))

\* C2: concurrent appends of one process do not interleave their
\* read-modify-write: once all of them have finished, the log holds every
\* record that was appended.
C2_NoLostUpdate ==
    ((\A t \in threads : pc[t] = "idle") /\ file.kind = "array")
        => \A ts \in (MaxSeed + 1)..clock :
              \E i \in 1..Len(Log(file)) : Log(file)[i].timestamp = ts

\* C5: get_reading never raises to its caller, whatever the hardware does.
C5_GetReadingNeverRaises ==
    Finished("get_reading") => op.outcome = "returned"

\* C6: after an unexpected fault has released the cached device handle, the
\* next get_reading call creates a fresh handle instead of reusing it.
C6_FreshHandleAfterFault ==
    (Finished("get_reading") /\ op.before.released) => (op.created /\ ~op.stale)

\* C7: interpret_reading classifies each variable independently and totally:
\* temperature absent -> unknown, 32..36 -> ideal, below 30 -> too_cold,
\* above 38 -> overheating, anything else -> warning; humidity absent ->
\* unknown, 50..65 -> ideal, below 40 -> too_dry, above 70 -> too_damp,
\* anything else -> warning.
C7_Bands ==
    Finished("interpret_reading") =>
        /\ interp.temperature_status =
              (IF tIn = None THEN "unknown"
               ELSE IF tIn[1] >= 320 /\ tIn[1] <= 360 THEN "ideal"
               ELSE IF tIn[1] < 300 THEN "too_cold"
               ELSE IF tIn[1] > 380 THEN "overheating"
               ELSE "warning")
        /\ interp.humidity_status =
              (IF hIn = None THEN "unknown"
               ELSE IF hIn[1] >= 500 /\ hIn[1] <= 650 THEN "ideal"
               ELSE IF hIn[1] < 400 THEN "too_dry"
               ELSE IF hIn[1] > 700 THEN "too_damp"
               ELSE "warning")

\* The reading {29.0, 75.0} has been classified too_cold / too_damp.
C7_Witness ==
    /\ Finished("interpret_reading")
    /\ tIn = Some(290) /\ hIn = Some(750)
    /\ interp = [temperature_status |-> "too_cold", humidity_status |-> "too_damp"]

\* C8: after an append of record r with no I/O failure, read_saved_records(1)
\* returns exactly [r], whether the log was absent, empty, well-formed or
\* unparsable before.
C8_AppendThenReadLast ==
    (/\ Recorded /\ op.outcome = "returned"
     /\ ~fault[op.thread]
     /\ pre[op.thread].kind \in {"absent", "empty", "array", "garbage"})
        => read_saved_records(file, 1, "ok") = <<op.value>>

\* A record has been appended to a log that could not be parsed.
C8_Witness ==
    /\ Recorded /\ op.outcome = "returned"
    /\ ~fault[op.thread]
    /\ pre[op.thread].kind = "garbage"
    /\ file.kind = "array"

\* C9: in sequential use on a well-formed log, each
\* get_reading_with_interpretation call extends the log by exactly one
\* record at the end and leaves the records before it as they were.
C9_EachCallExtendsLog ==
    (Recorded /\ pre[op.thread].kind = "array")
        => /\ op.outcome = "returned"
           /\ file.kind = "array"
           /\ Log(file) = Append(Log(pre[op.thread]), op.value)

\* C10: a failure to persist never leaves _save_record:
\* get_reading_with_interpretation returns the record it built, with its
\* reading, time stamp and interpretation, whether or not it reached the log.
C10_PersistFailureSwallowed ==
    /\ (Recorded /\ op.outcome = "raised") => op.stage = "read"
    /\ (Recorded /\ op.outcome = "returned") =>
          /\ op.value = rec[op.thread]
          /\ op.value.timestamp = clock
          /\ op.value.interpretation = interpret_reading(op.value)

\* A call has returned its record although the log, a JSON object, kept it
\* out: records.append raised inside _save_record.
C10_Witness ==
    /\ Recorded /\ op.outcome = "returned"
    /\ pre[op.thread].kind = "object"
    /\ ~fault[op.thread]
    /\ file = JObject
    /\ op.value.timestamp > MaxSeed

\* C11: read_saved_records on a log that does not exist, cannot be parsed
\* or does not hold an array returns an empty sequence and does not raise,
\* for every limit.
C11_UnreadableLogIsEmpty ==
    (Finished("read_saved_records") /\ file.kind # "array")
        => (op.outcome = "returned" /\ op.value = <<>>)

----------------------------------------------------------------------------
(* Properties of the camera stream manager *)

\* The instances in the Running state whose capture thread is alive.
Active == {i \in Insts : inst[i].running /\ Alive(i)}

\* C3: under any interleaving of get_camera requests at most one
\* CameraStream instance has a running capture loop, and no request stops an
\* instance other than the one whose configuration it compared: none that
\* another request has started since.
C3_SingleActiveInstance ==
    /\ Cardinality(Active) <= 1
    /\ \A r \in reqs : req[r].target # 0 => req[r].target = req[r].checked

\* C4: once the instance started by a reconfiguration has written its first
\* frame, the instance it replaced writes no frame any more.
C4_OldQuietBeforeNew ==
    [][\A i \in Insts :
          (inst[i].succ # 0 /\ inst[inst[i].succ].frame > 0)
              => inst'[i].frame = inst[i].frame]_vars

\* C12: an encode failure never terminates the capture loop: while the
\* instance is running, a loop whose encode failed (imencode returned a false
\* status or raised) leaves the retained frame as it was and goes on, through
\* its short sleep, to another iteration.
C12_EncodeFailureKeepsLoop ==
    [][\A i \in Insts :
          (/\ inst[i].loop = "encode" /\ inst[i].running
           /\ inst'[i].loop \notin {"encode", "write"})
              => (inst'[i].loop = "sleep" /\ inst'[i].frame = inst[i].frame)]_vars

----------------------------------------------------------------------------
(* Properties of the motion source *)

C19_GetStateNeverRaises ==
    Finished("get_state") =>
        /\ op.outcome = "returned"
        /\ (mhw /\ op.before.PIR = 0 /\ op.handle = "raises")
              => /\ op.value = MotionResult(None, Some("error"))
                 /\ PIR = 0
                 /\ last_state = op.before.last_state /\ LED = op.before.LED
        /\ (mhw /\ (op.before.PIR # 0 \/ op.handle = "ok") /\ op.query = "raises")
              => /\ op.value = MotionResult(None, Some("error"))
                 /\ PIR # 0
                 /\ last_state = op.before.last_state /\ LED = op.before.LED
        /\ op.before.PIR # 0 => (PIR = op.before.PIR /\ ~op.created)

\* A query has failed on an existing handle while motion was the last-known
\* state and the indicator was on.
C19_Witness ==
    /\ Finished("get_state") /\ mhw
    /\ op.before.PIR # 0 /\ op.query = "raises"
    /\ op.before.last_state = Some(TRUE) /\ op.before.LED = Some("on")
    /\ op.value.motion = None

----------------------------------------------------------------------------
(* Properties of the route /api/sensor *)

\* The request answered from the log: the live reading lacked both values
\* and the log holds at least one record.
FellBack ==
    /\ Finished("sensor_api") /\ op.branch = "fallback"
    /\ op.base.temperature_c = None /\ op.base.humidity = None
    /\ file.kind = "array" /\ Len(Log(file)) >= 1

C17_OnlyRecordingWritesLog ==
    [][/\ file' # file =>
             \E t \in threads : pc[t] \in {"save_write", "save_dump"} /\ pc'[t] # pc[t]
       /\ op'.name \in {"get_reading", "interpret_reading", "read_saved_records",
                        "get_state"} => file' = file
       /\ (op'.name = "sensor_api" /\ op'.branch = "fallback") => file' = file]_vars

\* A request has been answered from a log that an earlier call extended.
C17_Witness ==
    /\ FellBack /\ op.outcome = "returned"
    /\ clock > MaxSeed
    /\ Log(file)[Len(Log(file))].timestamp = clock

----------------------------------------------------------------------------
(* Properties of the route /camera_feed *)

\* C15: when the camera subsystem is entirely unavailable, because the
\* import of the module fails or because the camera cannot be acquired when
\* the first request constructs the CameraStream, GET /camera_feed answers
\* with status 503 and a text body: the exception does not leave the handler.
C15_UnavailableCameraIs503 ==
    /\ (Finished("camera_feed") /\ camlib = "no_cv2") => op.status = 503
    /\ (Finished("get_camera") /\ op.outcome = "raised" /\ op.req.checked = 0)
          => op.status = 503

\* The request of a returned get_camera call that found a running instance.
Reused == Finished("get_camera") /\ op.outcome = "returned" /\ op.req.checked # 0 /\ op.req.live

\* C20: get_camera stops the running instance and starts a fresh one exactly
\* when the size or the quality requested differs from the running
\* instance's: then the instance returned is a new, running one with the
\* configuration requested; otherwise (the same configuration, or another
\* framerate only) it is the same instance, still running, with the
\* framerate it had.
C20_RecreatedExactlyOnSizeOrQuality ==
    Reused =>
        LET old == inst[op.req.checked] IN
        IF ConfigDiffers(old, op.req.size, op.req.quality)
        THEN /\ ~old.running
             /\ op.value # op.req.checked
             /\ inst[op.value].running
             /\ inst[op.value].size = op.req.size
             /\ inst[op.value].quality = op.req.quality
             /\ inst[op.value].framerate = op.req.framerate
        ELSE /\ op.value = op.req.checked
             /\ op.req.target = 0
             /\ old.running
             /\ old.framerate = op.req.fps

----------------------------------------------------------------------------
(* Properties of the stream generator *)

\* C13: a stream generator stops as soon as its consumer has detached,
\* whether it is emitting frames or waiting for the first one: it ends, it
\* does not loop for ever.
C13_DetachedGeneratorStops ==
    \A k \in 1..MaxRequests :
        (k \in Gens /\ gens[k].consumer = "detached")
            ~> (k \in Gens /\ gens[k].pc = "closed")

\* Every payload a consumer has received is a frame the capture loop wrote.
WholeFrames ==
    \A k \in Gens :
        gens[k].got # 0 => (gens[k].got >= 1 /\ gens[k].got <= inst[gens[k].cam].frame)

\* Two consumers on one running camera whose capture thread is alive, both
\* still there.
TwoShare ==
    /\ Len(gens) >= 2
    /\ gens[1].cam = gens[2].cam
    /\ inst[gens[1].cam].running /\ Alive(gens[1].cam)
    /\ gens[1].consumer = "attached" /\ gens[2].consumer = "attached"

\* C14: two concurrent consumers of mjpeg_generator on the shared camera
\* both receive, in the end, an element that carries the frame get_frame()
\* returns, and no consumer ever receives anything but a complete frame
\* written by the capture loop.
C14_BothConsumersServed ==
    /\ []WholeFrames
    /\ TwoShare ~> (\/ Len(gens) >= 2 /\ gens[1].got # 0 /\ gens[2].got # 0
                    \/ Len(gens) >= 2 /\ ~TwoShare)

\* C14, amended: once the capture loop of the shared camera has written a
\* frame, each consumer that stays attached receives, in the end, an element
\* that carries a frame get_frame() returned; and no consumer ever receives
\* anything but a complete frame written by the capture loop.
C14_ServedOnceFrameWritten ==
    /\ []WholeFrames
    /\ \A k \in 1..MaxRequests :
          (k \in Gens /\ gens[k].consumer = "attached" /\ get_frame(gens[k].cam) # 0)
              ~> (k \in Gens /\ (gens[k].got # 0 \/ gens[k].consumer = "detached"))

\* Two attached consumers of one camera have both received its current frame.
C14_Witness ==
    /\ TwoShare
    /\ gens[1].got # 0 /\ gens[1].got = inst[gens[1].cam].frame
    /\ gens[2].got = gens[1].got



\* C21: each instance retains one frame, replaced only by the write step of
\* its own capture loop and each time by the next whole frame; what a
\* generator reads with get_frame is None or a frame the loop has written;
\* and a retained frame never goes back to None.
C21_RetainedFrameWholeAndKept ==
    /\ [](\A k \in Gens : gens[k].frame \in 0..inst[gens[k].cam].frame)
    /\ [][\A i \in Insts :
            /\ inst'[i].frame # inst[i].frame =>
                    (inst[i].loop = "write" /\ inst'[i].frame = inst[i].frame + 1)
            /\ inst[i].frame # 0 => inst'[i].frame # 0]_vars

\* A generator holds a frame of an instance whose loop has since had an
\* encode fail.
C21_Witness ==
    \E k \in Gens :
        /\ gens[k].frame # 0
        /\ inst[gens[k].cam].loop = "sleep"
        /\ inst[gens[k].cam].frame = gens[k].frame

\* C22: stop() clears the running flag, joins, then releases the device, and
\* the flag stays cleared; a call of stop() returns without raising and
\* leaves the instance stopped (the device released unless picam2.stop()
\* failed), also when the instance was stopped before or its thread had
\* exited; and once the flag is cleared the capture loop, scheduled fairly,
\* exits.
C22_StopEndsLoopAndRepeats ==
    /\ [](Finished("stop") =>
            /\ op.outcome = "returned"
            /\ ~inst[op.value].running
            /\ op.release = "ok" => inst[op.value].dev = "stopped")
    /\ [][\A i \in Insts :
            /\ inst'[i].dev # inst[i].dev => ~inst[i].running
            /\ ~inst[i].running => ~inst'[i].running]_vars
    /\ \A i \in 1..MaxRequests :
            (i \in Insts /\ ~inst[i].running) ~> (i \in Insts /\ ~Alive(i))

\* stop() has returned from a second call on an instance whose capture
\* thread had exited.
C22_Witness ==
    /\ Finished("stop")
    /\ op.again
    /\ op.outcome = "returned"
    /\ ~Alive(op.value)
    /\ inst[op.value].dev = "stopped"

\* An operation of the motion module has completed.
Notified == op.name \in {"get_state", "motion_detected", "motion_stopped"}

\* The latest two events differ, and the last-known state is the state of
\* the latest event.
EventsFollowChanges ==
    /\ Len(event) = 2 => event[1] # event[2]
    /\ event = None <=> last_state = None
    /\ event # None => last_state = Some(event[Len(event)])

C24_ReturnedInstanceRuns ==
    (Finished("get_camera") /\ op.outcome = "returned")
        => (op.value = G /\ inst[op.value].running)

\* C25: a response of GET /api/sensor that took the live branch (the first
\* read had both values) carries a temperature and a humidity.
C25_LiveResponseHasValues ==
    (Finished("sensor_api") /\ op.branch = "live" /\ op.outcome = "returned")
        => (op.value.temperature_c # None /\ op.value.humidity # None)

\* C26: a generator keeps the instance it was created with, whatever
\* get_camera does to the global one; it ends only when its consumer has
\* gone; and an element it yields once the capture thread of its instance
\* has exited carries the frame that instance retains.
C26_GeneratorKeepsItsInstance ==
    [][\A k \in Gens :
          /\ gens'[k].cam = gens[k].cam
          /\ (gens'[k].pc = "closed" /\ gens[k].pc # "closed")
                => gens[k].consumer = "detached"
          /\ (gens[k].pc = "get" /\ gens'[k].pc # "get" /\ ~Alive(gens[k].cam))
                => (gens'[k].frame = inst[gens[k].cam].frame
                    /\ (gens'[k].pc = "yield" <=> inst[gens[k].cam].frame # 0))]_vars

\* A generator of a replaced instance, whose capture thread has exited, has
\* yielded that instance's frame to a consumer still there, while the new
\* global instance retains none.
C26_Witness ==
    \E k \in Gens :
        /\ G # gens[k].cam
        /\ inst[G].running
        /\ ~Alive(gens[k].cam)
        /\ gens[k].pc = "yield"
        /\ gens[k].consumer = "attached"
        /\ gens[k].got # 0
        /\ gens[k].frame = inst[gens[k].cam].frame
        /\ inst[G].frame = 0

=============================================================================
